---- MODULE Spec2Model ----
(***************************************************************************)
(* BuffeRS (src/src/main.rs): a command loop over a registry of named text *)
(* buffers.  "open [name]" runs a modal editing session (a termgame Game   *)
(* driven by BufferEditor::on_event), "search ..." scans every buffer.     *)
(*                                                                         *)
(* Text is modelled as a sequence of one-character strings, so that        *)
(* parsing, formatting and projection are computed character by character. *)
(***************************************************************************)
EXTENDS Integers, Sequences, FiniteSets, Bags, TLC

VARIABLES
    editors,    \* main's HashMap<String, BufferEditor>: name -> [text, file]
    pc,         \* "prompt" (rl.readline), "game" (inside run_game), "done" (loop broken)
    line,       \* the command line last read by main
    out,        \* what the last step printed to stdout, one record per println!
    cur,        \* key of the BufferEditor run_game is driving
    ended,      \* the Game's end flag, set by game.end_game()
    viewport_y, \* the Game's viewport.y
    chunkmap,   \* the Game's published CharChunkMap: <<col, row>> -> char
    uuid,       \* run_command's buffer_uiids: 0 as every command starts it, then as
                \* fetch_editor left it
    hist,       \* history: the last event on_event processed and the state before it
    exitText,   \* history: name -> buffer text when its last modal session returned,
                \* kept for the names no later session has typed into yet
    next_anon_id, \* the Registry counter of spec 4.4, run beside the code's registry
    lastExit    \* history: the name and viewport.y of the modal session that has just
                \* returned, kept until the next command that is no open, or the
                \* first event of the next session

vars == <<editors, pc, line, out, cur, ended, viewport_y, chunkmap, uuid, hist, exitText,
          next_anon_id, lastExit>>

-----------------------------------------------------------------------------
(* Bounds of the exploration *)

\* total number of characters held by all buffers together
MaxLen == 3
\* number of registry entries
MaxEditors == 2
\* highest viewport.y explored
MaxScroll == 1

-----------------------------------------------------------------------------
(* Alphabets *)

NL == "\n"
\* the characters KeyCode::Char(c) delivers in the explored sessions
Chars == {"f", "h"}
\* char::is_whitespace over the characters that occur in command lines
Whitespace == {" ", "\t", NL}

NoName == <<"-">>
NoExit == [name |-> NoName, y |-> 0]
EmptyMap == <<>>

-----------------------------------------------------------------------------
(* Buffer *)

Buffer_new(file) == [text |-> <<>>, file |-> file]

push_char(text, c) == Append(text, c)

\* String::pop taking the wrong end
pop_char_front(text) ==
    IF text = <<>> THEN [ch |-> "None", text |-> <<>>]
    ELSE [ch |-> text[1], text |-> Tail(text)]

\* String::pop with the empty case reported as a character
pop_char_nul(text) ==
    IF text = <<>> THEN [ch |-> "0", text |-> <<>>]
    ELSE [ch |-> text[Len(text)], text |-> SubSeq(text, 1, Len(text) - 1)]

\* String::pop: the removed character (or "None") and the remaining text
pop_char(text) ==
    IF text = <<>> THEN [ch |-> "None", text |-> <<>>]
    ELSE [ch |-> text[Len(text)], text |-> SubSeq(text, 1, Len(text) - 1)]

\* map.insert with its coordinates exchanged
map_insert_swapped(map, col, row, c) ==
    [k \in (DOMAIN map) \cup {<<row, col>>} |->
        IF k = <<row, col>> THEN c ELSE map[k]]

\* map.insert(col, line, c): a later insert at the same cell replaces the earlier
map_insert(map, col, row, c) ==
    [k \in (DOMAIN map) \cup {<<col, row>>} |->
        IF k = <<col, row>> THEN c ELSE map[k]]

\* the walk without `col = 0` after a line terminator
RECURSIVE chunkmap_walk_no_col_reset(_, _, _, _, _)
chunkmap_walk_no_col_reset(text, i, row, col, map) ==
    IF i > Len(text) THEN map
    ELSE LET c == text[i]
             m == map_insert(map, col, row, c)
         IN IF c = NL THEN chunkmap_walk_no_col_reset(text, i + 1, row + 1, col + 1, m)
            ELSE chunkmap_walk_no_col_reset(text, i + 1, row, col + 1, m)

RECURSIVE chunkmap_walk(_, _, _, _, _)
chunkmap_walk(text, i, row, col, map) ==
    IF i > Len(text) THEN map
    ELSE LET c == text[i]
             m == map_insert(map, col, row, c)
         IN IF c = NL THEN chunkmap_walk(text, i + 1, row + 1, 0, m)
            ELSE chunkmap_walk(text, i + 1, row, col + 1, m)

chunkmap_from_textarea(text, map) == chunkmap_walk(text, 1, 0, 0, map)

-----------------------------------------------------------------------------
(* Command parsing *)

\* first_word: the text before the first ' ' byte, or all of s
first_word(s) ==
    IF \E i \in 1..Len(s) : s[i] = " "
    THEN LET i == CHOOSE i \in 1..Len(s) :
                      s[i] = " " /\ \A j \in 1..(i - 1) : s[j] # " "
         IN SubSeq(s, 1, i - 1)
    ELSE s

\* str::split_whitespace: the maximal runs of non-whitespace characters, in order
RECURSIVE split_ws(_, _, _, _)
split_ws(s, i, word, acc) ==
    IF i > Len(s) THEN (IF word = <<>> THEN acc ELSE Append(acc, word))
    ELSE IF s[i] \in Whitespace
         THEN split_ws(s, i + 1, <<>>, IF word = <<>> THEN acc ELSE Append(acc, word))
         ELSE split_ws(s, i + 1, Append(word, s[i]), acc)

split_whitespace(s) == split_ws(s, 1, <<>>, <<>>)

\* str::lines: split at '\n'; a final empty piece (text empty or ending in '\n') is dropped
RECURSIVE lines_walk(_, _, _, _)
lines_walk(text, i, piece, acc) ==
    IF i > Len(text) THEN (IF piece = <<>> THEN acc ELSE Append(acc, piece))
    ELSE IF text[i] = NL
         THEN lines_walk(text, i + 1, <<>>, Append(acc, piece))
         ELSE lines_walk(text, i + 1, Append(piece, text[i]), acc)

lines(text) == lines_walk(text, 1, <<>>, <<>>)

\* str::contains: pat occurs in s as a contiguous run of characters
contains(s, pat) ==
    \E k \in 0..(Len(s) - Len(pat)) : SubSeq(s, k + 1, k + Len(pat)) = pat

\* decimal digits of a non-negative i32, as format!("{}", n) writes them
Digit(d) == <<"0", "1", "2", "3", "4", "5", "6", "7", "8", "9">>[d + 1]

RECURSIVE ToDecimal(_)
ToDecimal(n) == IF n < 10 THEN <<Digit(n)>> ELSE Append(ToDecimal(n \div 10), Digit(n % 10))

\* format!("buffer_{}", uuid)
format_buffer(n) == <<"b", "u", "f", "f", "e", "r", "_">> \o ToDecimal(n)

-----------------------------------------------------------------------------
(* Registry *)

\* the loop of the None arm starting one past the counter
anon_probe_skips_first(eds, u) ==
    LET n == CHOOSE n \in (u + 1)..(u + 1 + Cardinality(DOMAIN eds)) :
                 /\ format_buffer(n) \notin DOMAIN eds
                 /\ \A m \in (u + 1)..(n - 1) : format_buffer(m) \in DOMAIN eds
    IN [name |-> format_buffer(n), uuid |-> n]

\* the None arm without its contains_key test
anon_probe_unchecked(eds, u) == [name |-> format_buffer(u), uuid |-> u]

\* the loop of fetch_editor's None arm: probe buffer_<u> upwards from u until free
RECURSIVE anon_probe(_, _)
anon_probe(eds, u) ==
    IF format_buffer(u) \notin DOMAIN eds THEN [name |-> format_buffer(u), uuid |-> u]
    ELSE anon_probe(eds, u + 1)

\* fetch_editor taking the last argument for the name
buffer_name_last_arg(eds, cmd, u) ==
    LET args == split_whitespace(cmd)
    IN IF Len(args) >= 2 THEN [name |-> args[Len(args)], uuid |-> u]
       ELSE anon_probe(eds, u)

\* fetch_editor's choice of key: args.get(1), else the probed anonymous name
buffer_name(eds, cmd, u) ==
    LET args == split_whitespace(cmd)
    IN IF Len(args) >= 2 THEN [name |-> args[2], uuid |-> u]
       ELSE anon_probe(eds, u)

\* spec 4.4, fetch_or_create without a name: buffer_<n> for the lowest n >= next_anon_id
\* that is no key; next_anon_id moves past the collisions probed, onto n
registry_anon(eds, next) ==
    LET n == CHOOSE n \in next..(next + Cardinality(DOMAIN eds)) :
                 /\ format_buffer(n) \notin DOMAIN eds
                 /\ \A m \in next..(n - 1) : format_buffer(m) \in DOMAIN eds
    IN [name |-> format_buffer(n), next |-> n]

\* editors.entry(name).or_insert(BufferEditor { buffer: Buffer::new(None) })
or_insert_overwrite(eds, name) ==
    [k \in (DOMAIN eds) \cup {name} |-> IF k = name THEN Buffer_new("None") ELSE eds[k]]

or_insert(eds, name) ==
    IF name \in DOMAIN eds THEN eds
    ELSE [k \in (DOMAIN eds) \cup {name} |-> IF k = name THEN Buffer_new("None") ELSE eds[k]]

\* print_buffer_searches' term: &cmd[first_word.len() - 1 ..]  (byte index, 0-based)
search_term(cmd) == SubSeq(cmd, Len(first_word(cmd)), Len(cmd))

\* the "found: ..." lines one editor contributes, in line order
RECURSIVE found_in(_, _, _)
found_in(ls, term, i) ==
    IF i > Len(ls) THEN <<>>
    ELSE (IF contains(ls[i], term) THEN <<[kind |-> "found", text |-> ls[i]]>> ELSE <<>>)
         \o found_in(ls, term, i + 1)

\* the output of print_buffer_searches when editors.values() yields the keys in `order`
RECURSIVE search_output(_, _, _, _)
search_output(eds, order, term, i) ==
    IF i > Len(order) THEN <<>>
    ELSE found_in(lines(eds[order[i]].text), term, 1) \o search_output(eds, order, term, i + 1)

\* the orders in which a HashMap may yield its entries
Orders(keys) ==
    {o \in [1..Cardinality(keys) -> keys] : \A i, j \in DOMAIN o : i # j => o[i] # o[j]}

RECURSIVE SumLen(_, _)
SumLen(eds, keys) ==
    IF keys = {} THEN 0
    ELSE LET k == CHOOSE k \in keys : TRUE
         IN Len(eds[k].text) + SumLen(eds, keys \ {k})

TotalLen(eds) == SumLen(eds, DOMAIN eds)

-----------------------------------------------------------------------------
(* BufferEditor::on_event *)

\* the Up arm: viewport.y -= 1 only when viewport.y > 0
scroll_up_unclamped(y) == y - 1

scroll_up(y) == IF y > 0 THEN y - 1 ELSE y

\* the Down arm: viewport.y += 1
scroll_down(y) == y + 1

\* the Control+f arm: pop until a '\n' was popped or pop_char returned None
RECURSIVE clear_line_keep_nl(_)
clear_line_keep_nl(text) ==
    IF text = <<>> \/ text[Len(text)] = NL THEN text
    ELSE clear_line_keep_nl(pop_char(text).text)

RECURSIVE clear_line(_)
clear_line(text) ==
    LET p == pop_char(text)
    IN IF p.ch = NL \/ p.ch = "None" THEN p.text ELSE clear_line(p.text)

\* the Backspace arm: pop_char, result discarded
backspace(text) == pop_char(text).text

\* the tail of on_event: a new CharChunkMap is filled and swapped into the game
republish_stale(text, old) == chunkmap_from_textarea(text, old)

republish(text, old) == chunkmap_from_textarea(text, EmptyMap)

\* the Esc arm calls game.end_game(); no other arm does
ends_game_also_ctrl_f(ev) == ev.kind \in {"Esc", "CtrlF"}

ends_game(ev) == ev.kind = "Esc"

\* the match with its `_` arm acting as the Backspace arm
text_after_default_deletes(ev, text) ==
    CASE ev.kind = "Char" -> push_char(text, ev.c)
      [] ev.kind = "Enter" -> push_char(text, NL)
      [] ev.kind = "CtrlF" -> clear_line(text)
      [] ev.kind \in {"Up", "Down", "Esc", "CtrlS"} -> text
      [] OTHER -> backspace(text)

\* the buffer text after the match in on_event
text_after(ev, text) ==
    CASE ev.kind = "Char" -> push_char(text, ev.c)
      [] ev.kind = "Enter" -> push_char(text, NL)
      [] ev.kind = "CtrlF" -> clear_line(text)
      [] ev.kind = "Backspace" -> backspace(text)
      [] OTHER -> text

\* the viewport.y after the match in on_event
y_after(ev, y) ==
    CASE ev.kind = "Up" -> scroll_up(y)
      [] ev.kind = "Down" -> scroll_down(y)
      [] OTHER -> y

\* what the match in on_event prints
printed(ev) == IF ev.kind = "CtrlS" THEN <<[kind |-> "saving"]>> ELSE <<>>

Event(k) == [kind |-> k, c |-> ""]

\* self.buffer is the running editor's own Buffer: the match writes only that entry
set_text_all(eds, name, new) == [k \in DOMAIN eds |-> [eds[k] EXCEPT !.text = new]]

set_text(eds, name, new) == [eds EXCEPT ![name].text = new]

\* on_event as one step of the running game
on_event(ev) ==
    /\ pc = "game"
    /\ ~ended
    /\ LET text == editors[cur].text
           new == text_after(ev, text)
       IN /\ editors' = set_text(editors, cur, new)
          /\ chunkmap' = republish(new, chunkmap)
          /\ hist' = [ev |-> ev, text |-> text, y |-> viewport_y]
    /\ viewport_y' = y_after(ev, viewport_y)
    /\ ended' = (ended \/ ends_game(ev))
    /\ out' = printed(ev)
    /\ exitText' = [n \in (DOMAIN exitText) \ {cur} |-> exitText[n]]
    /\ lastExit' = NoExit
    /\ UNCHANGED <<pc, line, cur, uuid, next_anon_id>>

OnChar ==
    /\ TotalLen(editors) < MaxLen
    /\ \E c \in Chars : on_event([kind |-> "Char", c |-> c])

OnEnter ==
    /\ TotalLen(editors) < MaxLen
    /\ on_event(Event("Enter"))

OnEsc ==
    /\ pc = "game"
    /\ on_event(Event("Esc"))

OnUp ==
    /\ pc = "game"
    /\ on_event(Event("Up"))

OnDown ==
    /\ viewport_y < MaxScroll
    /\ on_event(Event("Down"))

OnCtrlS ==
    /\ pc = "game"
    /\ on_event(Event("CtrlS"))

OnCtrlF ==
    /\ pc = "game"
    /\ on_event(Event("CtrlF"))

OnBackspace ==
    /\ pc = "game"
    /\ on_event(Event("Backspace"))

\* any event the match sends to its `_ => {}` arm
OnOther ==
    /\ pc = "game"
    /\ on_event(Event("Other"))

-----------------------------------------------------------------------------
(* run_command and main *)

OPEN == <<"o", "p", "e", "n">>
SEARCH == <<"s", "e", "a", "r", "c", "h">>

\* the command lines rl.readline delivers in the explored runs
Commands == {
    OPEN \o <<" ", "a">>,
    OPEN \o <<" ", " ", "b", "u", "f", "f", "e", "r", "_", "0", " ", "f">>,
    OPEN,
    OPEN \o <<" ">>,
    SEARCH \o <<" ", "f">>,
    SEARCH,
    <<"z", "z", "z">> }

\* the arm run_command's match on first_word(cmd) takes
command_arm_default_opens(cmd) ==
    IF first_word(cmd) = SEARCH THEN "search" ELSE "open"

\* the match with the search arm falling into the open arm
command_arm_search_opens(cmd) ==
    IF first_word(cmd) \in {OPEN, SEARCH} THEN "open" ELSE "other"

command_arm(cmd) ==
    IF first_word(cmd) = OPEN THEN "open"
    ELSE IF first_word(cmd) = SEARCH THEN "search"
    ELSE "other"

NoHist == [ev |-> Event("None"), text |-> <<>>, y |-> 0]

\* "open" arm: fetch_editor, then run_game on the entry with a new Game
CmdOpen ==
    /\ pc = "prompt"
    /\ \E cmd \in Commands :
        /\ command_arm(cmd) = "open"
        /\ LET b == buffer_name(editors, cmd, 0)
           IN /\ b.name \in DOMAIN editors \/ Cardinality(DOMAIN editors) < MaxEditors
              /\ editors' = or_insert(editors, b.name)
              /\ cur' = b.name
              /\ uuid' = b.uuid
              /\ hist' = [ev |-> Event("Start"), text |-> editors'[b.name].text, y |-> 0]
        /\ next_anon_id' = IF Len(split_whitespace(cmd)) >= 2 THEN next_anon_id
                           ELSE registry_anon(editors, next_anon_id).next
        /\ line' = cmd
    /\ pc' = "game"
    /\ ended' = FALSE
    /\ viewport_y' = 0
    /\ chunkmap' = EmptyMap
    /\ out' = <<>>
    /\ UNCHANGED <<exitText, lastExit>>

\* "search" arm: print_buffer_searches
CmdSearch ==
    /\ pc = "prompt"
    /\ \E cmd \in Commands :
        /\ command_arm(cmd) = "search"
        /\ line' = cmd
        /\ \E order \in Orders(DOMAIN editors) :
              out' = search_output(editors, order, search_term(cmd), 1)
    /\ lastExit' = NoExit
    /\ UNCHANGED <<editors, pc, cur, ended, viewport_y, chunkmap, uuid, hist, exitText,
                   next_anon_id>>

\* `_` arm: println!("Command not recognised")
CmdOther ==
    /\ pc = "prompt"
    /\ \E cmd \in Commands :
        /\ command_arm(cmd) = "other"
        /\ line' = cmd
    /\ out' = <<[kind |-> "not recognised"]>>
    /\ lastExit' = NoExit
    /\ UNCHANGED <<editors, pc, cur, ended, viewport_y, chunkmap, uuid, hist, exitText,
                   next_anon_id>>

\* run_game returns once the game has ended; run_command returns Ok(()) to the loop
GameReturn ==
    /\ pc = "game"
    /\ ended
    /\ pc' = "prompt"
    /\ exitText' = (cur :> editors[cur].text) @@ exitText
    /\ lastExit' = [name |-> cur, y |-> viewport_y]
    /\ cur' = NoName
    /\ ended' = FALSE
    /\ viewport_y' = 0
    /\ chunkmap' = EmptyMap
    /\ uuid' = 0
    /\ hist' = NoHist
    /\ out' = <<>>
    /\ UNCHANGED <<editors, line, next_anon_id>>

\* rl.readline fails: Interrupted or Eof break silently, any other error is printed;
\* main then returns and its locals (the registry with them) are dropped
MainBreak ==
    /\ pc = "prompt"
    /\ pc' = "done"
    /\ \E o \in {<<>>, <<[kind |-> "error"]>>} : out' = o
    /\ editors' = <<>>
    /\ line' = <<>>
    /\ exitText' = <<>>
    /\ lastExit' = NoExit
    /\ next_anon_id' = 0
    /\ UNCHANGED <<cur, ended, viewport_y, chunkmap, uuid, hist>>

Init ==
    /\ editors = <<>>
    /\ pc = "prompt"
    /\ line = <<>>
    /\ out = <<>>
    /\ cur = NoName
    /\ ended = FALSE
    /\ viewport_y = 0
    /\ chunkmap = EmptyMap
    /\ uuid = 0
    /\ hist = NoHist
    /\ exitText = <<>>
    /\ lastExit = NoExit
    /\ next_anon_id = 0

Next ==
    \/ CmdOpen
    \/ CmdSearch
    \/ CmdOther
    \/ OnChar
    \/ OnEnter
    \/ OnEsc
    \/ OnUp
    \/ OnDown
    \/ OnCtrlS
    \/ OnCtrlF
    \/ OnBackspace
    \/ OnOther
    \/ GameReturn
    \/ MainBreak

Spec == Init /\ [][Next]_vars

-----------------------------------------------------------------------------
(* Properties *)

InGame == pc = "game"
AtEntry == InGame /\ hist.ev.kind = "Start"
CurText == editors[cur].text
\* every buffer text arises as the text of the running session: the pure
\* functions of Buffer are examined on it
TextInHand == IF InGame THEN {CurText} ELSE {}
\* the characters a session can append
Appendable == Chars \cup {NL}

\* C1: a name whose modal session has returned still holds, at every later
\* moment up to and including the entry of its next `open`, exactly the text it
\* held when that session returned, whatever commands ran in between.
C1_ReopenKeepsContent ==
    \A n \in DOMAIN exitText : n \in DOMAIN editors /\ editors[n].text = exitText[n]

C1_Witness ==
    /\ AtEntry
    /\ cur \in DOMAIN exitText
    /\ exitText[cur] = <<"h", NL, "f">>
    /\ CurText = <<"h", NL, "f">>
    /\ Cardinality(DOMAIN editors) = 2

RECURSIVE push_all(_, _)
push_all(text, s) == IF s = <<>> THEN text ELSE push_all(push_char(text, Head(s)), Tail(s))

\* n calls of pop_char: the characters returned, in call order, and the text left
RECURSIVE pop_n(_, _)
pop_n(text, n) ==
    IF n = 0 THEN [popped |-> <<>>, text |-> text]
    ELSE LET p == pop_char(text)
             r == pop_n(p.text, n - 1)
         IN [popped |-> <<p.ch>> \o r.popped, text |-> r.text]

Reverse(s) == [i \in 1..Len(s) |-> s[Len(s) + 1 - i]]

AppendRuns ==
    {<<c>> : c \in Appendable} \cup {<<c, d>> : c \in Appendable, d \in Appendable}

\* C2: on every buffer content, push_char(c) then pop_char returns c and restores
\* the content; after a run of appends, as many pops return the appended
\* characters in reverse order and restore the content.
C2_PushPopRoundTrip ==
    \A t \in TextInHand :
        \A s \in AppendRuns :
            pop_n(push_all(t, s), Len(s)) = [popped |-> Reverse(s), text |-> t]

C2_Witness ==
    /\ InGame
    /\ hist.ev.kind = "Backspace"
    /\ hist.text = <<"f", NL, "h">>
    /\ CurText = <<"f", NL>>

\* the term the command names: everything after the first space
term_after_space(cmd) == SubSeq(cmd, Len(first_word(cmd)) + 2, Len(cmd))

\* C3: after `search <term>`, the lines printed are exactly the lines of all
\* buffers that contain <term>, the text after the first space.
C3_SearchFindsTerm ==
    (pc = "prompt" /\ first_word(line) = SEARCH /\ Len(line) > Len(SEARCH) + 1)
        => \E order \in Orders(DOMAIN editors) :
               out = search_output(editors, order, term_after_space(line), 1)

IsAnonOpen(cmd) == command_arm(cmd) = "open" /\ Len(split_whitespace(cmd)) < 2

\* C4: an `open` without a name creates a session under a key that was absent:
\* one more session, and every earlier session keeps its key and content.
C4_AnonOpenIsFresh ==
    [][(pc = "prompt" /\ pc' = "game" /\ IsAnonOpen(line'))
        => /\ cur' \notin DOMAIN editors
           /\ DOMAIN editors' = (DOMAIN editors) \cup {cur'}
           /\ Cardinality(DOMAIN editors') = Cardinality(DOMAIN editors) + 1
           /\ \A k \in DOMAIN editors : editors'[k] = editors[k]
           /\ editors'[cur'].text = <<>>]_vars

C4_Witness ==
    /\ AtEntry
    /\ IsAnonOpen(line)
    /\ cur = format_buffer(1)
    /\ format_buffer(0) \in DOMAIN editors
    /\ editors[format_buffer(0)].text # <<>>

\* C5: a command whose verb is neither open nor search prints the
\* not-recognised message, changes no session, enters no modal session, and
\* leaves the loop at its prompt.
C5_UnknownVerbChangesNothing ==
    [][(pc = "prompt" /\ pc' # "done" /\ first_word(line') \notin {OPEN, SEARCH})
        => /\ editors' = editors
           /\ pc' = "prompt"
           /\ out' = <<[kind |-> "not recognised"]>>
           /\ UNCHANGED <<cur, ended, viewport_y, chunkmap>>]_vars

C5_Witness ==
    /\ pc = "prompt"
    /\ line = <<"z", "z", "z">>
    /\ out = <<[kind |-> "not recognised"]>>
    /\ \E n \in DOMAIN editors : editors[n].text # <<>>

HasNL(t) == \E i \in 1..Len(t) : t[i] = NL
LastNL(t) == CHOOSE i \in 1..Len(t) : t[i] = NL /\ \A j \in (i + 1)..Len(t) : t[j] # NL

\* C6: after Control+f the content is the old content's prefix strictly before
\* its last line terminator, or empty if the old content had none.
C6_ClearLine ==
    (InGame /\ hist.ev.kind = "CtrlF")
        => CurText = (IF HasNL(hist.text)
                      THEN SubSeq(hist.text, 1, LastNL(hist.text) - 1)
                      ELSE <<>>)

C6_Witness ==
    /\ InGame
    /\ hist.ev.kind = "CtrlF"
    /\ hist.text = <<"f", NL, "h">>
    /\ CurText = <<"f">>

\* the rows of a cell map that hold at least one cell
Rows(map) == {k[2] : k \in DOMAIN map}
CountNL(t) == Cardinality({i \in 1..Len(t) : t[i] = NL})
Projection(t) == chunkmap_from_textarea(t, EmptyMap)
EndsOpen(t) == t # <<>> /\ t[Len(t)] # NL

\* C7 as stated: a text with k line terminators projects onto rows 0..k.
C7_RowsAreZeroToK ==
    \A n \in DOMAIN editors :
        Rows(Projection(editors[n].text)) = 0..CountNL(editors[n].text)

\* C7, amended: a text with k line terminators projects onto rows 0..k when it is
\* non-empty and does not end in a line terminator, and onto rows 0..k-1 when
\* it is empty or ends in one (the last line then holds no character).
C7_RowsOfProjection ==
    \A n \in DOMAIN editors :
        LET t == editors[n].text
        IN Rows(Projection(t)) =
               IF EndsOpen(t) THEN 0..CountNL(t) ELSE 0..(CountNL(t) - 1)

C7_Witness ==
    /\ InGame
    /\ hist.ev.kind = "Enter"
    /\ CurText = <<NL, "h", NL>>
    /\ Rows(chunkmap) = {0, 1}

\* C8: after every event on_event processes, the published cell map is the
\* projection of the buffer as it is after the event, and holds nothing else.
C8_PublishedMapIsProjection ==
    (InGame /\ hist.ev.kind # "Start")
        => /\ chunkmap = Projection(CurText)
           /\ Cardinality(DOMAIN chunkmap) = Len(CurText)

C8_Witness ==
    /\ InGame
    /\ hist.ev.kind = "CtrlF"
    /\ hist.text = <<"f", NL, "h">>
    /\ DOMAIN chunkmap = {<<0, 0>>}

\* C9: the game is ended exactly when the last event processed was Esc, and Esc
\* leaves the buffer text and the viewport as they were.
C9_OnlyEscTerminates ==
    InGame
        => /\ ended <=> hist.ev.kind = "Esc"
           /\ hist.ev.kind = "Esc" => (CurText = hist.text /\ viewport_y = hist.y)

C9_Witness ==
    /\ InGame
    /\ ended
    /\ hist.ev.kind = "Esc"
    /\ CurText = <<"h", NL, "f">>
    /\ viewport_y = 1

\* C10: viewport.y is never negative; Up gives 0 from 0 and n-1 from n > 0, Down
\* gives n+1 whatever the content, and no other event changes it.
C10_ScrollOffset ==
    /\ viewport_y >= 0
    /\ InGame
        => viewport_y =
               CASE hist.ev.kind = "Up" -> (IF hist.y = 0 THEN 0 ELSE hist.y - 1)
                 [] hist.ev.kind = "Down" -> hist.y + 1
                 [] OTHER -> hist.y

C10_Witness ==
    /\ InGame
    /\ hist.ev.kind = "Up"
    /\ hist.y = 0
    /\ viewport_y = 0
    /\ CurText # <<>>

\* C11: a session re-opened right after it returned starts with the viewport.y
\* it had when it returned.
C11_ScrollOffsetPersists ==
    (AtEntry /\ cur = lastExit.name) => viewport_y = lastExit.y

IsCommandStep == pc = "prompt" /\ pc' # "done"

\* C12: a search command, with or without a term, enters no modal session and
\* changes neither the set of sessions nor any buffer.
C12_SearchChangesNothing ==
    [][(IsCommandStep /\ first_word(line') = SEARCH)
        => /\ editors' = editors
           /\ pc' = "prompt"
           /\ UNCHANGED <<cur, ended, viewport_y, chunkmap>>]_vars

C12_Witness ==
    /\ pc = "prompt"
    /\ line = SEARCH
    /\ out = <<[kind |-> "found", text |-> <<"h", "f">>]>>
    /\ Cardinality(DOMAIN editors) = 2

\* C13: the anonymous-name counter never decreases from one step to the next,
\* so a command starts with at least the value every earlier command ended with.
C13_CounterMonotone ==
    [][uuid' >= uuid]_vars

\* C14: while a modal session is running, a step changes no other session's
\* buffer and no registry key, and no command is read until the game has ended.
C14_SessionIsExclusive ==
    [][InGame
        => /\ DOMAIN editors' = DOMAIN editors
           /\ \A k \in (DOMAIN editors) \ {cur} : editors'[k] = editors[k]
           /\ line' = line
           /\ ~ended => (pc' = "game" /\ cur' = cur)]_vars

C14_Witness ==
    /\ InGame
    /\ hist.ev.kind = "Char"
    /\ CurText = <<"f">>
    /\ \E k \in (DOMAIN editors) \ {cur} : editors[k].text = <<"h", NL>>

\* C15: Control+s and every event of the `_` arm leave the buffer text, the
\* viewport and the game's running state as they were.
C15_SaveAndIgnoredAreNoOps ==
    (InGame /\ hist.ev.kind \in {"CtrlS", "Other"})
        => /\ CurText = hist.text
           /\ viewport_y = hist.y
           /\ ~ended

C15_Witness ==
    /\ InGame
    /\ hist.ev.kind = "CtrlS"
    /\ out = <<[kind |-> "saving"]>>
    /\ CurText = <<"f", NL, "h">>
    /\ viewport_y = 1

\* C16: pop_char on the empty text reports None, and Backspace or Control+f on
\* an empty buffer leave it empty, the game running and the published map empty.
C16_EmptyBufferNoOps ==
    /\ pop_char(<<>>) = [ch |-> "None", text |-> <<>>]
    /\ (InGame /\ hist.ev.kind \in {"Backspace", "CtrlF"} /\ hist.text = <<>>)
        => /\ CurText = <<>>
           /\ ~ended
           /\ chunkmap = EmptyMap

C16_Witness ==
    /\ InGame
    /\ hist.ev.kind = "CtrlF"
    /\ hist.text = <<>>
    /\ CurText = <<>>
    /\ chunkmap = EmptyMap
    /\ ~ended

\* the command line after its verb and the first space
rest_of(cmd) == SubSeq(cmd, Len(first_word(cmd)) + 2, Len(cmd))
IsAnonName(name) == \E n \in 0..Cardinality(DOMAIN editors) : name = format_buffer(n)

\* C17: a command whose verb is open enters the session keyed by the first
\* whitespace-delimited token after the verb: an absent key is created empty, a
\* present one reused unchanged, later tokens are ignored; with no such token
\* the session is a new anonymous one.
C17_OpenTakesFirstToken ==
    [][(IsCommandStep /\ first_word(line') = OPEN)
        => LET toks == split_whitespace(rest_of(line'))
           IN /\ pc' = "game"
              /\ toks # <<>> => cur' = toks[1]
              /\ toks = <<>> => (cur' \notin DOMAIN editors /\ IsAnonName(cur'))
              /\ cur' \in DOMAIN editors => editors' = editors
              /\ cur' \notin DOMAIN editors
                    => /\ DOMAIN editors' = (DOMAIN editors) \cup {cur'}
                       /\ editors'[cur'].text = <<>>
                       /\ \A k \in DOMAIN editors : editors'[k] = editors[k]]_vars

C17_Witness ==
    /\ AtEntry
    /\ line = OPEN \o <<" ", " ", "b", "u", "f", "f", "e", "r", "_", "0", " ", "f">>
    /\ cur = format_buffer(0)
    /\ CurText = <<"h", NL, "f">>
    /\ cur \in DOMAIN exitText

\* the row and column of the character at index i, counted from the text alone
RowOf(t, i) == Cardinality({j \in 1..(i - 1) : t[j] = NL})
LineStart(t, i) ==
    IF \E j \in 1..(i - 1) : t[j] = NL
    THEN (CHOOSE j \in 1..(i - 1) : t[j] = NL /\ \A k \in (j + 1)..(i - 1) : t[k] # NL) + 1
    ELSE 1
ColOf(t, i) == i - LineStart(t, i)
CellOf(t, i) == <<ColOf(t, i), RowOf(t, i)>>

\* C18: projection puts the character at index i at row = terminators before i
\* and column = characters since the preceding terminator (or the start); no two
\* characters share a cell, so there are as many cells as characters and the
\* empty text projects to the empty map.
C18_ProjectionCoordinates ==
    /\ Projection(<<>>) = EmptyMap
    /\ \A t \in TextInHand :
          LET m == Projection(t)
          IN /\ DOMAIN m = {CellOf(t, i) : i \in 1..Len(t)}
             /\ \A i \in 1..Len(t) : m[CellOf(t, i)] = t[i]
             /\ \A i, j \in 1..Len(t) : CellOf(t, i) = CellOf(t, j) => i = j
             /\ Cardinality(DOMAIN m) = Len(t)

C18_Witness ==
    /\ InGame
    /\ CurText = <<"h", NL, "f">>
    /\ chunkmap = (<<0, 0>> :> "h") @@ (<<1, 0>> :> NL) @@ (<<0, 1>> :> "f")

\* the lowest n >= 0 for which buffer_<n> is no key
LowestFree(eds) ==
    CHOOSE n \in 0..Cardinality(DOMAIN eds) :
        /\ format_buffer(n) \notin DOMAIN eds
        /\ \A m \in 0..(n - 1) : format_buffer(m) \in DOMAIN eds

C20_MapShownAtEntry ==
    AtEntry => chunkmap = Projection(CurText)

====
